---------------------------- MODULE Spec2Model ----------------------------
(***************************************************************************)
(* State-machine model of the polling firmware ChristmasLED.ino: the tick  *)
(* counter, the touch gesture classifier, the mode controller, the setup   *)
(* flag and the animation programs' setup/step framework.                  *)
(*                                                                         *)
(* One action, Loop, is one full execution of loop().  The C globals are   *)
(* the variables; the sequential code is composed from operators on a      *)
(* record of the globals, one operator per C function.  Variables whose    *)
(* names do not occur in the source (evt, held, hold, ...) are history     *)
(* variables: they record what the last pass did and never influence it.   *)
(***************************************************************************)
EXTENDS Integers, Sequences, FiniteSets, TLC

(***************************** program constants ***************************)
debugMode == 0
cLightSwitch == 255
iLiteMax == 60
iTotalLiteModes == 9
cLedCount == 16
iPollingInterval == 2
iShortPressTime == 1500
iLongPressTime == 3000
iDemoPressTime == 7000
iDemoModeTime == 10000
iAutoSaveTime == 600000
LOW == 0
HIGH == 1
\* unsigned short iTimer / iFadeTime: 16 bits
USHORT == 65536
\* byte: 8 bits
BYTE == 256

(********************************* bounds **********************************)
\* Five environments are explored.  Under Spec the light sensor reads evening
\* and the touch sensor is held for any of HoldChoices ticks; under SpecLight
\* the light reading changes between evening and day and the touch sensor
\* is only tapped; under SpecIdle the sensor is never touched and the
\* counters run through their whole range; under SpecFast several passes run
\* within one millisecond; under SpecClock millis() rolls over.
\*
\* With the sensor idle, passes are explored while iTimer < MaxIdle.
MaxIdle == 2100
\* With the sensor held, passes are explored while held <= MaxHold.
MaxHold == 10002
\* The same under SpecLight.
MaxTap == 1498
\* Tick values at which an idle sensor may be touched.
PressAt == {2100}
\* Numbers of ticks after the Press at which the sensor may be let go.
HoldChoices == {1498, 1500, 2998, 3000, 3002, 6998, 7000, 10002}
\* The same under SpecLight.
TapChoices == {1498}
\* hold durations of the persistence specification: a tap and an extra-long
\* press
SaveHoldChoices == {1498, 10002}
\* Tick values at which the ambient light reading may change (SpecLight).
LightAt == {0, 2092}
\* Readings of the light sensor: evening, and the threshold itself (day).
LightChoices == {0, 255}
\* Values of random() used by the flicker programs.
RandomChoices == {0, 24}
\* Values diLiteMode.read() may return at boot: a fresh cell reads 0; the
\* cell otherwise holds a mode autoSave() stored.
BootChoices == {0}
\* The same under SpecLight.
LightBootChoices == {0, 10}
\* The same under SpecIdle: the programs with the three cadences, and demo.
IdleBootChoices == {0, 1, 3, 10}
\* The same under SpecFast: a fading program, and demo.
FastBootChoices == {4, 10}
\* cell contents outside 0..10 at power-up
StoredChoices == {0 - 1, 11, 65546}
\* SpecFast: passes in a row that may find millis() unchanged.
MaxSameTick == 2
\* SpecFast: outside the first demo interval and its advance, passes are
\* explored while iTimer < MaxFast.
MaxFast == 130
\* SpecFast: tick values at which the light reading may change.
FastLightAt == {60, 10000}
\* SpecClock: milliseconds explored before and after the rollover of millis().
ClockLead == 60
\* SpecClock: values of iTimer when the exploration starts.
ClockTimerChoices == {0, 7}

(***************************** history values ******************************)
\* "no program": nothing was dispatched / no setup has run.
NoProg == 0 - 2

\* The C globals (ChristmasLED.ino lines 139-153) and the history variables,
\* as the fields of one record that the operators below thread through the
\* statements of loop() in the order they execute.
VARIABLE g

vars == <<g>>

\* C globals
iLiteMode == g.iLiteMode
bModeSetup == g.bModeSetup
iPressTime == g.iPressTime
iReleaseTime == g.iReleaseTime
iUptime == g.iUptime
iFadeTime == g.iFadeTime
iLightValue == g.iLightValue
iTimer == g.iTimer
iCycle == g.iCycle
iRedMax == g.iRedMax
iGreenMax == g.iGreenMax
iBlueMax == g.iBlueMax
iRed == g.iRed
iGreen == g.iGreen
iBlue == g.iBlue
bCurrentTouchValue == g.bCurrentTouchValue
bLastTouchValue == g.bLastTouchValue
\* CRGB leds[cLedCount]: pixel i is leds[i] = 0xRRGGBB
leds == g.leds
\* the FlashStorage cell
diLiteMode == g.diLiteMode

\* history variables
\* what the last pass detected: "boot", "none", "press", "release"
evt == g.evt
\* the edge detected most recently: "none", "press", "release"
edge == g.edge
\* tick increments since the pass that detected the Press
held == g.held
\* iHoldTime computed by the last pass (<<0, 0>> if it saw no release)
hold == g.hold
\* held at the release detected by the last pass (0 if none)
realHold == g.realHold
\* iLiteMode at the start of the last pass
from == g.from
\* iTimer at the start of the last pass
t0 == g.t0
\* iFadeTime at the start of the last pass
fade0 == g.fade0
\* bModeSetup when the last pass reached the mode dispatch
flagSeen == g.flagSeen
\* program whose step the last pass ran (NoProg if none)
prog == g.prog
\* program whose setup the last pass ran (NoProg if none)
ranSetup == g.ranSetup
\* program whose setup last wrote the animation state
owner == g.owner
\* setups of the active mode's program since iLiteMode last changed
setups == g.setups
\* the phases iRed, iGreen, iBlue the last modeSetup call was given
given == g.given
\* the phases when the last pass began the step of its program
phases == g.phases
\* consecutive short presses since iLiteMode was 0 (-1: not known)
shortRun == g.shortRun
\* passes in a row that did not execute the body of the tick test
same == g.same
\* the hardware millisecond counter when the last pass read millis()
clock == g.clock
\* millis() at the start of the last pass differed from iUptime
moved == g.moved
\* the last pass executed the body of the tick test (iUptime = millis(); iTimer++)
ticked == g.ticked
\* pollSensors() calls since the tick test last incremented iTimer (2: two or more)
polls == g.polls
\* visible updates (buffer write and flush of the dispatched program) since
\* the tick test last incremented iTimer (2: two or more)
updates == g.updates
\* the last pass made a visible update
updated == g.updated
\* the last pass advanced iCycle
advanced == g.advanced
\* tick increments since iCycle last advanced with the demo undisturbed
\* (-1: not known)
sinceAdvance == g.sinceAdvance
\* sinceAdvance at the advance made by the last pass (-1: none, not known)
interval == g.interval
\* tick increments since the last pass whose cadence test held, with no
\* setup in between (-1: not known)
sinceDue == g.sinceDue
\* sinceDue at the cadence test that held in the last pass (-1: none, not known)
gap == g.gap
\* program stepped by the pass before the last one
prevProg == g.prevProg
\* iCycle when the last pass entered ledMode10 (-1: it did not)
demoIn == g.demoIn
\* iCycle at the switch of ledMode10 in the last pass (-1: not evaluated)
demoSub == g.demoSub
\* passes since boot (2: two or more)
passes == g.passes
\* the last pass executed the comparison of autoSave
checked == g.checked
\* the last pass executed diLiteMode.write
wrote == g.wrote
\* the FlashStorage cell at the start of the last pass
stored0 == g.stored0
\* tick increments since the last comparison of autoSave (-1: none since
\* boot; capped at iAutoSaveTime)
sinceCheck == g.sinceCheck
\* sinceCheck at the comparison made by the last pass (-1: none, or the first)
checkGap == g.checkGap
\* the values diLiteMode.write has stored, latest first, kept over power
\* cycles (at most one is remembered)
written == g.written
\* the program's variables after the last pass that wrote the cell, or else
\* after the first idle pass in which the demo painted its first program
\* while the cell differed from iLiteMode (<<>>: no such pass since the last
\* gesture)
mark == g.mark
\* the last pass left the program's variables as they are in mark
lapped == g.lapped
\* the off program has reached a cadence boundary since the light gate closed
dark == g.dark

(************************* unsigned long arithmetic ************************)
\* An unsigned long (32 bits) is the pair <<hi, lo>> of its 16-bit halves.
\* iPressTime and iReleaseTime only ever hold copies of the 16-bit iTimer,
\* so they are kept as numbers below USHORT; their difference is a pair.
ULongSub(a, b) == IF a >= b THEN <<0, a - b>> ELSE <<USHORT - 1, USHORT + a - b>>

ULongGT(x, n) == x[1] > 0 \/ x[2] > n

ULongLT(x, n) == x[1] = 0 /\ x[2] < n

\* a < b on two unsigned longs
ULongLess(a, b) == a[1] < b[1] \/ (a[1] = b[1] /\ a[2] < b[2])

\* x + 1 on an unsigned long: 2^32 - 1 rolls over to 0
ULongInc(x) ==
  IF x[2] = USHORT - 1 THEN <<(x[1] + 1) % USHORT, 0>> ELSE <<x[1], x[2] + 1>>

(****************************** Arduino core *******************************)
\* random(min, max) of the Arduino core on the raw generator output `raw`:
\* min when min >= max, else raw % (max - min) + min.
random(raw, howsmall, howbig) ==
  IF howsmall >= howbig THEN howsmall ELSE (raw % (howbig - howsmall)) + howsmall

\* map(x, in_min, in_max, out_min, out_max) of the Arduino core (long
\* arithmetic, truncating division; every use here has non-negative terms).
map(x, in_min, in_max, out_min, out_max) ==
  ((x - in_min) * (out_max - out_min)) \div (in_max - in_min) + out_min

(********************************* FastLED *********************************)
\* scale8(i, scale) with FASTLED_SCALE8_FIXED
scale8(i, scale) == (i * (1 + scale)) \div 256

\* triwave8(in): triangle wave on a byte
triwave8(in) == ((IF in >= 128 THEN 255 - in ELSE in) * 2) % BYTE

\* ease8InOutCubic(i): 3 i^2 - 2 i^3 on fract8, 256 clamped to 255
ease8InOutCubic(i) ==
  LET ii == scale8(i, i)
      iii == scale8(ii, i)
      r1 == 3 * ii - 2 * iii
  IN IF (r1 \div 256) % 2 = 1 THEN 255 ELSE r1 % BYTE

\* cubicwave8(in); its argument is converted to a byte
cubicwave8(in) == ease8InOutCubic(triwave8(in % BYTE))

\* CRGB(r, g, b): three bytes, kept as the number 0xRRGGBB
CRGB(red, green, blue) ==
  ((red % BYTE) * BYTE + (green % BYTE)) * BYTE + (blue % BYTE)

\* The pixel indices of leds[]
Pixels == 0..(cLedCount - 1)

(***************************** support functions **************************)
\* pollSensors(): one analogRead and one digitalRead.
pollSensors(s, touch, light) ==
  [s EXCEPT !.iLightValue = light, !.bCurrentTouchValue = touch]

\* The three comparisons of touchReleaseEvent(), in the order it makes them.
IsDemoPress(iHoldTime) == ULongGT(iHoldTime, iDemoModeTime)

\* Mutant: the long-press test made against the wrong threshold.
IsLongPressWrongConstant(iHoldTime) == ULongGT(iHoldTime, iDemoPressTime)

IsLongPress(iHoldTime) == ULongGT(iHoldTime, iLongPressTime)

\* Mutant: the short-press test made inclusive.
IsShortPressInclusive(iHoldTime) == ULongLT(iHoldTime, iShortPressTime + 1)

IsShortPress(iHoldTime) == ULongLT(iHoldTime, iShortPressTime)

\* Mutant: the short-press branch wrapping only past the demo.
ShortPressWrapAfterDemo(s) ==
  LET m == s.iLiteMode + 1
  IN [s EXCEPT !.iLiteMode =
        IF m > iTotalLiteModes + 1 THEN (IF debugMode # 0 THEN -1 ELSE 0)
        ELSE m]

\* Mutant: the short-press branch without its wrap.
ShortPressNoWrap(s) == [s EXCEPT !.iLiteMode = s.iLiteMode + 1]

\* Mutant: the short-press branch taken twice for one release.
ShortPressTwice(s) ==
  LET m == s.iLiteMode + 2
  IN [s EXCEPT !.iLiteMode =
        IF m > iTotalLiteModes THEN (IF debugMode # 0 THEN -1 ELSE 0) ELSE m]

\* The short-press branch: iLiteMode++ and the wrap past the last program.
ShortPress(s) ==
  LET m == s.iLiteMode + 1
  IN [s EXCEPT !.iLiteMode =
        IF m > iTotalLiteModes THEN (IF debugMode # 0 THEN -1 ELSE 0) ELSE m]

\* touchReleaseEvent(), polling version.
touchReleaseEvent(s) ==
  LET r == [s EXCEPT !.iReleaseTime = s.iTimer]
      iHoldTime == ULongSub(r.iReleaseTime, r.iPressTime)
  IN IF IsDemoPress(iHoldTime) THEN [r EXCEPT !.iLiteMode = 10]
     ELSE IF IsLongPress(iHoldTime) THEN [r EXCEPT !.iLiteMode = 0]
     ELSE IF IsShortPress(iHoldTime) THEN ShortPress(r)
     ELSE r

\* iLiteMode is a short: an int assigned to it keeps its low 16 bits.
ToShort(v) ==
  LET m == v % USHORT IN IF m >= USHORT \div 2 THEN m - USHORT ELSE m

\* Mutant: a cell that reads as erased.
FlashReadErased(s) == 0

\* diLiteMode.read(): the int last stored in the cell.
FlashRead(s) == s.diLiteMode

\* diLiteMode.write(value): the short is promoted to int unchanged.
FlashWrite(s, value) == [s EXCEPT !.diLiteMode = value]

\* History: the comparison of autoSave was executed.
NoteCheck(s) ==
  [s EXCEPT !.checked = TRUE, !.checkGap = s.sinceCheck, !.sinceCheck = 0]

\* History: diLiteMode.write was executed.
NoteWrite(s) == [s EXCEPT !.wrote = TRUE, !.written = <<s.diLiteMode>>]

\* Mutant: autoSave without the comparison.
autoSaveAlways(s) ==
  IF s.iTimer % iAutoSaveTime = 0
    THEN NoteWrite(FlashWrite(NoteCheck(s), s.iLiteMode))
    ELSE s

\* autoSave(): iTimer is promoted to int, so iTimer % 600000 is iTimer.
autoSave(s) ==
  IF s.iTimer % iAutoSaveTime = 0
    THEN LET c == NoteCheck(s)
         IN IF c.iLiteMode # FlashRead(c)
              THEN NoteWrite(FlashWrite(c, c.iLiteMode))
              ELSE c
    ELSE s

\* modeSetup(): note that iTimer takes the OLD iFadeTime.
modeSetup(s, redMax, greenMax, blueMax, red, green, blue, fadeTime) ==
  [s EXCEPT !.iRedMax = redMax, !.iGreenMax = greenMax, !.iBlueMax = blueMax,
            !.iRed = red, !.iGreen = green, !.iBlue = blue,
            !.iTimer = s.iFadeTime,
            !.iFadeTime = fadeTime,
            !.bModeSetup = 1]

\* History: program p's setup ran in this pass; it rewrote iTimer.
NoteSetup(s, p) ==
  [s EXCEPT !.ranSetup = p, !.owner = p,
            !.given = <<s.iRed, s.iGreen, s.iBlue>>,
            !.setups = IF p = s.iLiteMode /\ s.setups < 2
                         THEN s.setups + 1 ELSE s.setups,
            !.polls = 0, !.updates = 0, !.sinceDue = -1]

\* History: program p's step ran in this pass.
NoteStep(s, p) ==
  [s EXCEPT !.prog = p, !.phases = <<s.iRed, s.iGreen, s.iBlue>>]

\* The "if (bModeSetup != 1) modeSetup(...)" that opens every program.
SetupIfNeeded(s, p, redMax, greenMax, blueMax, red, green, blue, fadeTime) ==
  IF s.bModeSetup # 1
    THEN NoteSetup(modeSetup(s, redMax, greenMax, blueMax, red, green, blue,
                             fadeTime), p)
    ELSE s

\* Mutant: the cadence test always true.
DueEveryPass(s) == s.iTimer % 1 = 0

\* The cadence test every program makes.
Due(s) == s.iTimer % s.iFadeTime = 0

\* History: the cadence test held in this pass.
NoteDue(s) ==
  [s EXCEPT !.gap = IF s.sinceDue > 0 THEN s.sinceDue ELSE -1,
            !.sinceDue = 0]

\* Mutant: only the red phase moves.
IncrementRedOnly(s) == [s EXCEPT !.iRed = (s.iRed + 1) % BYTE]

\* iRed++; iGreen++; iBlue++ on bytes.
IncrementColors(s) ==
  [s EXCEPT !.iRed = (s.iRed + 1) % BYTE, !.iGreen = (s.iGreen + 1) % BYTE,
            !.iBlue = (s.iBlue + 1) % BYTE]

\* The pixel expressions of the programs.
OffPixel(s, i) == CRGB(0, 0, 0)

TestPixel(s, i) == IF i = s.iCycle THEN CRGB(20, 20, 20) ELSE CRGB(0, 0, 0)

StaticPixel(s, i) ==
  CRGB(map(s.iRed, 0, 255, 0, s.iRedMax), map(s.iGreen, 0, 255, 0, s.iGreenMax),
       map(s.iBlue, 0, 255, 0, s.iBlueMax))

FlickerPixel(s, i) == CRGB(s.iRed, s.iGreen, s.iBlue)

ChasePixel(s, i) ==
  LET off == 85 * (i % 3)
  IN CRGB(map(cubicwave8(s.iRed + off), 0, 255, 0, s.iRedMax),
          map(cubicwave8(s.iGreen + off), 0, 255, 0, s.iGreenMax),
          map(cubicwave8(s.iBlue + off), 0, 255, 0, s.iBlueMax))

PlainPixel(s, i) ==
  CRGB(map(cubicwave8(s.iRed), 0, 255, 0, s.iRedMax),
       map(cubicwave8(s.iGreen), 0, 255, 0, s.iGreenMax),
       map(cubicwave8(s.iBlue), 0, 255, 0, s.iBlueMax))

RotatePixel(s, i) ==
  LET iRTemp == map(cubicwave8(s.iRed), 0, 255, 0, s.iRedMax)
      iGTemp == map(cubicwave8(s.iGreen), 0, 255, 0, s.iGreenMax)
      iBTemp == map(cubicwave8(s.iBlue), 0, 255, 0, s.iBlueMax)
  IN CASE i % 3 = 0 -> CRGB(iRTemp, iGTemp, iBTemp)
       [] i % 3 = 1 -> CRGB(iGTemp, iBTemp, iRTemp)
       [] OTHER -> CRGB(iBTemp, iRTemp, iGTemp)

ChaseBluePixel(s, i) ==
  LET off == 85 * (i % 3)
  IN CRGB(map(cubicwave8(s.iRed + off), 0, 255, 0, s.iRedMax),
          map(cubicwave8(s.iGreen + off), 0, 255, 0, s.iGreenMax),
          s.iBlueMax)

\* The pixel expression of each kind of program.
PixelOf(s, kind, i) ==
  CASE kind = "off" -> OffPixel(s, i)
    [] kind = "test" -> TestPixel(s, i)
    [] kind = "static" -> StaticPixel(s, i)
    [] kind = "flicker" -> FlickerPixel(s, i)
    [] kind = "chase" -> ChasePixel(s, i)
    [] kind = "plain" -> PlainPixel(s, i)
    [] kind = "rotate" -> RotatePixel(s, i)
    [] kind = "chaseBlue" -> ChaseBluePixel(s, i)

\* The "for (i = 0; i < cLedCount; i++) leds[i] = ..." of a program, with the
\* history of the visible update.
Paint(s, kind) ==
  [s EXCEPT !.leds = [i \in Pixels |-> PixelOf(s, kind, i)],
            !.updated = TRUE,
            !.updates = IF s.updates < 2 THEN s.updates + 1 ELSE 2]

\* The flicker programs draw a colour per pixel into iRed/iGreen/iBlue; the
\* generator output `raw` is the same for every pixel of one pass.
Flicker(s, raw, lo) ==
  LET r == random(raw, lo, s.iRedMax)
  IN Paint([s EXCEPT !.iRed = r, !.iGreen = r \div 2, !.iBlue = 0],
           "flicker")

\* ledTest(speed): its own setup (no modeSetup call), then the walking pixel.
ledTest(s, speed) ==
  LET a == IF s.bModeSetup # 1
             THEN [s EXCEPT !.leds = [i \in Pixels |-> CRGB(0, 0, 0)],
                            !.iCycle = 0, !.bModeSetup = 1,
                            !.ranSetup = -1, !.owner = -1]
             ELSE s
      b == NoteStep(a, -1)
  IN IF b.iTimer % speed = 0
       THEN LET c == Paint(b, "test")
            IN [c EXCEPT !.iCycle = IF c.iCycle + 1 >= cLedCount
                                      THEN 0 ELSE c.iCycle + 1]
       ELSE b

(****************************** lite modes *********************************)
ledMode0(s) ==
  LET a == IF s.bModeSetup # 1
             THEN [NoteSetup(modeSetup(s, 0, 0, 0, 0, 0, 0, 10), 0)
                     EXCEPT !.iCycle = 0]
             ELSE s
      b == NoteStep(a, 0)
  IN IF Due(b) THEN Paint(NoteDue(b), "off") ELSE b

\* FastLED.show() runs in every pass; the buffer is written at the cadence.
ledMode1(s) ==
  LET a == NoteStep(SetupIfNeeded(s, 1, iLiteMax \div 2, iLiteMax \div 4, 0,
                                  255, 127, 0, 50), 1)
  IN IF Due(a) THEN Paint(NoteDue(a), "static") ELSE a

ledMode2(s, raw) ==
  LET a == NoteStep(SetupIfNeeded(s, 2, iLiteMax \div 2, iLiteMax \div 4, 0,
                                  255, 127, 0, 10), 2)
  IN IF Due(a) THEN Flicker(NoteDue(a), raw, 5) ELSE a

ledMode3(s, raw) ==
  LET a == NoteStep(SetupIfNeeded(s, 3, iLiteMax \div 2, iLiteMax \div 4, 0,
                                  255, 127, 0, 2000), 3)
  IN IF Due(a) THEN Flicker(NoteDue(a), raw, 0) ELSE a

\* Programs 4..9 differ in their setup arguments and pixel expression; the
\* step of each ends with the same increment of the three phases.
FadeMode(s, p, kind, redMax, greenMax, blueMax, red, green, blue) ==
  LET a == NoteStep(SetupIfNeeded(s, p, redMax, greenMax, blueMax,
                                  red, green, blue, 10), p)
  IN IF Due(a) THEN IncrementColors(Paint(NoteDue(a), kind)) ELSE a

ledMode4(s) ==
  FadeMode(s, 4, "chase", iLiteMax \div 2, iLiteMax \div 2, 0, 127, 0, 0)

ledMode5(s) ==
  FadeMode(s, 5, "rotate", iLiteMax \div 2, iLiteMax \div 2, 0, 127, 0, 0)

\* Mutant: program 6 with the ceilings of a two-colour program.
ledMode6Halves(s) ==
  FadeMode(s, 6, "plain", iLiteMax \div 2, iLiteMax \div 2, iLiteMax \div 2,
           255, 127, 0)

ledMode6(s) ==
  FadeMode(s, 6, "plain", iLiteMax \div 3, iLiteMax \div 3, iLiteMax \div 3,
           255, 127, 0)

ledMode7(s) ==
  FadeMode(s, 7, "rotate", iLiteMax \div 3, iLiteMax \div 3, iLiteMax \div 3,
           127, 63, 0)

ledMode8(s) ==
  FadeMode(s, 8, "chaseBlue", iLiteMax \div 3, iLiteMax \div 3,
           iLiteMax \div 3, 0, 0, 255)

ledMode9(s) ==
  FadeMode(s, 9, "chaseBlue", iLiteMax \div 3, iLiteMax \div 15,
           iLiteMax \div 3, 0, 0, 255)

\* The switch over programs 1..9 shared by loop() and ledMode10().
Program(s, p, raw) ==
  CASE p = 1 -> ledMode1(s)
    [] p = 2 -> ledMode2(s, raw)
    [] p = 3 -> ledMode3(s, raw)
    [] p = 4 -> ledMode4(s)
    [] p = 5 -> ledMode5(s)
    [] p = 6 -> ledMode6(s)
    [] p = 7 -> ledMode7(s)
    [] p = 8 -> ledMode8(s)
    [] p = 9 -> ledMode9(s)
    [] OTHER -> s

\* Mutant: the demo advance moving iLiteMode instead of iCycle.
DemoAdvanceMode(s) ==
  [s EXCEPT !.iLiteMode = s.iLiteMode + 1, !.bModeSetup = 0]

\* Lines 743-744: iCycle++; bModeSetup = 0;
DemoAdvance(s) == [s EXCEPT !.iCycle = (s.iCycle + 1) % BYTE, !.bModeSetup = 0]

\* History: this pass advanced iCycle.
NoteAdvance(s) ==
  [s EXCEPT !.advanced = TRUE, !.interval = s.sinceAdvance, !.sinceAdvance = 0]

\* Mutant: the range test of ledMode10 without its upper half.
NormalizeCycleLowOnly(s) == IF s.iCycle < 1 THEN [s EXCEPT !.iCycle = 1] ELSE s

\* Lines 707-709: if (iCycle < 1 || iCycle > 9) {iCycle = 1;}
NormalizeCycle(s) ==
  IF s.iCycle < 1 \/ s.iCycle > 9 THEN [s EXCEPT !.iCycle = 1] ELSE s

\* ledMode10(): the demo scheduler.
ledMode10(s, raw) ==
  LET n == NormalizeCycle(s)
      a == [n EXCEPT !.demoIn = s.iCycle, !.demoSub = n.iCycle]
      b == Program(a, a.iCycle, raw)
  IN IF b.iTimer % iDemoModeTime = 0 /\ b.iTimer # 0
       THEN NoteAdvance(DemoAdvance(b))
       ELSE b

(********************************* loop() **********************************)
\* History of the tick: the counters of tick increments, and of the passes
\* since iTimer last changed.
NoteTick(s) ==
  [s EXCEPT !.ticked = TRUE, !.same = 0, !.polls = 0, !.updates = 0,
            !.held = IF s.bLastTouchValue = HIGH THEN s.held + 1 ELSE s.held,
            !.sinceDue = IF s.sinceDue >= 0 THEN s.sinceDue + 1 ELSE -1,
            !.sinceAdvance =
               IF s.sinceAdvance >= 0 THEN s.sinceAdvance + 1 ELSE -1,
            !.sinceCheck =
               IF s.sinceCheck >= 0 /\ s.sinceCheck < iAutoSaveTime
                 THEN s.sinceCheck + 1 ELSE s.sinceCheck]

\* The tick test: iUptime < millis()
UptimeAdvanced(last, now) == ULongLess(last, now)

\* Line 186: if (iUptime < millis()) {iUptime = millis(); iTimer++;}
\* now1 and now2 are the two readings of millis().
Tick(s, now1, now2) ==
  IF UptimeAdvanced(s.iUptime, now1)
    THEN NoteTick([s EXCEPT !.iUptime = now2,
                            !.iTimer = (s.iTimer + 1) % USHORT])
    ELSE s

\* History kept by the edge detection of lines 194-204.
NoteShortRun(s, iHoldTime) ==
  IF IsDemoPress(iHoldTime) \/ IsLongPress(iHoldTime) THEN -1
  ELSE IF IsShortPress(iHoldTime)
         THEN (IF s.iLiteMode = 0 THEN 1
               ELSE IF s.shortRun >= 1 THEN s.shortRun + 1 ELSE -1)
  ELSE s.shortRun

\* Mutant: the flag cleared only when the release changed the mode.
ClearModeSetupIfChanged(s) ==
  IF s.iLiteMode # s.from THEN [s EXCEPT !.bModeSetup = 0] ELSE s

\* Mutant: the release handler without "bModeSetup = 0".
KeepModeSetup(s) == s

\* Line 201: bModeSetup = 0;
ClearModeSetup(s) == [s EXCEPT !.bModeSetup = 0]

\* Line 191: iTimer % iPollingInterval == 0
PollDue(s) == s.iTimer % iPollingInterval = 0

\* Mutant: the onPress branch without "bLastTouchValue = bCurrentTouchValue".
OnPressForgetful(p) ==
  [p EXCEPT !.iPressTime = p.iTimer,
            !.evt = "press", !.edge = "press", !.held = 0, !.sinceAdvance = -1]

\* Lines 194-197: the onPress branch.
OnPress(p) ==
  [p EXCEPT !.iPressTime = p.iTimer,
            !.bLastTouchValue = p.bCurrentTouchValue,
            !.evt = "press", !.edge = "press", !.held = 0, !.sinceAdvance = -1]

\* Lines 191-205: poll, then the onPress / onRelease edge logic.
PollAndTouch(s, touch, light) ==
  IF ~PollDue(s) THEN s
  ELSE
    LET q == pollSensors(s, touch, light)
        p == [q EXCEPT !.polls = IF q.polls < 2 THEN q.polls + 1 ELSE 2]
    IN IF p.bLastTouchValue = LOW /\ p.bCurrentTouchValue = HIGH
         THEN OnPress(p)
       ELSE IF p.bLastTouchValue = HIGH /\ p.bCurrentTouchValue = LOW
         THEN LET r == ClearModeSetup(touchReleaseEvent(p))
                  iHoldTime == ULongSub(p.iTimer, p.iPressTime)
              IN [r EXCEPT !.bLastTouchValue = r.bCurrentTouchValue,
                           !.evt = "release", !.edge = "release",
                           !.hold = iHoldTime,
                           !.realHold = p.held, !.held = 0,
                           !.shortRun = NoteShortRun(p, iHoldTime),
                           !.setups = IF r.iLiteMode # p.iLiteMode
                                        THEN 0 ELSE p.setups,
                           !.sinceAdvance = -1]
       ELSE p

\* Mutant: the light gate closing only above the threshold.
IsEveningInclusive(s) == s.iLightValue <= cLightSwitch

\* Line 209: iLightValue < cLightSwitch
IsEvening(s) == s.iLightValue < cLightSwitch

\* Lines 209-262: the ambient-light gate and the mode switch.
Dispatch(s, raw) ==
  IF IsEvening(s)
    THEN LET z == CASE s.iLiteMode = -1 -> ledTest(s, 1000)
                    [] s.iLiteMode = 0 -> ledMode0(s)
                    [] s.iLiteMode \in 1..9 -> Program(s, s.iLiteMode, raw)
                    [] s.iLiteMode = 10 -> ledMode10(s, raw)
                    [] OTHER -> s
         IN [z EXCEPT !.dark = FALSE,
                      !.sinceAdvance = IF s.iLiteMode = 10 THEN @ ELSE -1]
    ELSE LET z == ledMode0(s)
         IN [z EXCEPT !.dark = s.dark \/ z.updated, !.sinceAdvance = -1]

\* The variables of the program and the FlashStorage cell.  iUptime is left
\* out: the code only compares it with millis().
Globals(s) ==
  <<s.iLiteMode, s.bModeSetup, s.iPressTime, s.iReleaseTime, s.iFadeTime,
    s.iLightValue, s.iTimer, s.iCycle, s.iRedMax, s.iGreenMax, s.iBlueMax,
    s.iRed, s.iGreen, s.iBlue, s.bCurrentTouchValue, s.bLastTouchValue,
    s.leds, s.diLiteMode>>

\* History: the recurrence of the program's variables.
NoteLap(s) ==
  IF s.evt # "none" THEN [s EXCEPT !.mark = <<>>, !.lapped = FALSE]
  ELSE IF s.wrote \/ (s.mark = <<>> /\ s.updated /\ s.demoSub = 1
                                    /\ s.iLiteMode # s.diLiteMode)
    THEN [s EXCEPT !.mark = <<Globals(s)>>, !.lapped = FALSE]
  ELSE IF s.mark = <<>> THEN s
  ELSE [s EXCEPT !.lapped = (Globals(s) = s.mark[1])]

\* One execution of loop() from the globals s.
loop(s, now1, now2, touch, light, raw) ==
  LET a == [s EXCEPT !.evt = "none", !.hold = <<0, 0>>, !.realHold = 0,
                     !.from = s.iLiteMode, !.t0 = s.iTimer,
                     !.fade0 = s.iFadeTime,
                     !.prog = NoProg, !.ranSetup = NoProg,
                     !.prevProg = s.prog,
                     !.moved = (s.iUptime # now1), !.ticked = FALSE,
                     !.same = IF s.same < MaxSameTick THEN s.same + 1
                              ELSE MaxSameTick,
                     !.updated = FALSE, !.advanced = FALSE,
                     !.interval = -1, !.gap = -1,
                     !.demoIn = -1, !.demoSub = -1,
                     !.passes = IF s.passes < 2 THEN s.passes + 1 ELSE 2,
                     !.checked = FALSE, !.wrote = FALSE,
                     !.stored0 = s.diLiteMode, !.checkGap = -1]
      b == PollAndTouch(Tick(a, now1, now2), touch, light)
      c == Dispatch([b EXCEPT !.flagSeen = b.bModeSetup], raw)
  IN NoteLap(autoSave(c))

(******************************* state machine *****************************)
\* The uptime the tick-abstract specifications measure from.
Epoch == <<0, 0>>

\* Lines 139 and 176: iLiteMode = 1, then
\* if (!debugMode) {iLiteMode = diLiteMode.read();}
RestoredMode(s) == IF debugMode = 0 THEN ToShort(FlashRead(s)) ELSE 1

\* setup(): the globals' initialisers, then iLiteMode = diLiteMode.read().
\* boot is the content of the FlashStorage cell at power-up.
Boot(boot) ==
  [iLiteMode |-> RestoredMode([diLiteMode |-> boot]),
   bModeSetup |-> 0, iPressTime |-> 0, iReleaseTime |-> 0, iUptime |-> Epoch,
   iFadeTime |-> 100, iLightValue |-> 0, iTimer |-> 0, iCycle |-> 0,
   iRedMax |-> 0, iGreenMax |-> 0, iBlueMax |-> 0,
   iRed |-> 0, iGreen |-> 0, iBlue |-> 0,
   bCurrentTouchValue |-> LOW, bLastTouchValue |-> LOW,
   leds |-> [i \in Pixels |-> CRGB(0, 0, 0)],
   diLiteMode |-> boot,
   evt |-> "boot", edge |-> "none", held |-> 0, hold |-> <<0, 0>>, realHold |-> 0,
   from |-> RestoredMode([diLiteMode |-> boot]), t0 |-> 0, flagSeen |-> 0,
   prog |-> NoProg, ranSetup |-> NoProg, owner |-> NoProg,
   setups |-> 0, shortRun |-> -1,
   given |-> <<0, 0, 0>>, phases |-> <<0, 0, 0>>, fade0 |-> 100,
   clock |-> Epoch, moved |-> FALSE, ticked |-> FALSE, same |-> 0,
   polls |-> 0, updates |-> 0, updated |-> FALSE, advanced |-> FALSE,
   sinceAdvance |-> -1, interval |-> -1, sinceDue |-> -1, gap |-> -1,
   prevProg |-> NoProg, dark |-> FALSE, demoIn |-> -1, demoSub |-> -1,
   passes |-> 0, checked |-> FALSE, wrote |-> FALSE, stored0 |-> boot,
   sinceCheck |-> -1, checkGap |-> -1, written |-> <<>>,
   mark |-> <<>>, lapped |-> FALSE]

Init == \E boot \in BootChoices : g = Boot(boot)

\* The inputs of a pass that starts in the current state.  The first pass
\* may run before millis() has left 0; every later pass sees a new
\* millisecond.
TickChoices == IF evt = "boot" THEN {TRUE, FALSE} ELSE {TRUE}

TimerAfter(tick) == IF tick THEN (iTimer + 1) % USHORT ELSE iTimer

Polls(tick) == TimerAfter(tick) % iPollingInterval = 0

\* The sensor is let go holdChoices ticks after the Press: the first poll at
\* or after that tick reads LOW.
LetGo(tick, holdChoices) ==
  tick /\ (held + 1 \in holdChoices \/ held \in holdChoices)

\* digitalRead(): differs from the last sample only at the chosen ticks.
TouchInputs(tick, holdChoices) ==
  IF ~Polls(tick) THEN {bCurrentTouchValue}
  ELSE IF bCurrentTouchValue = LOW
    THEN {LOW} \cup (IF TimerAfter(tick) \in PressAt THEN {HIGH} ELSE {})
  ELSE {HIGH} \cup (IF LetGo(tick, holdChoices) THEN {LOW} ELSE {})

\* analogRead(): differs from the last sample only at the chosen ticks.
LightInputs(tick, lightAt) ==
  IF Polls(tick) /\ bCurrentTouchValue = LOW /\ TimerAfter(tick) \in lightAt
    THEN LightChoices ELSE {iLightValue}

\* random() is only read by programs 2 and 3 (directly or under the demo).
RandomInputs == IF iLiteMode \in {2, 3, 10} THEN RandomChoices ELSE {0}

\* The exploration horizon.
WithinHorizon(maxHold) ==
  IF bCurrentTouchValue = LOW THEN iTimer < MaxIdle ELSE held <= maxHold

\* millis() as read by a pass of the tick-abstract specifications: the
\* uptime last observed, or one millisecond more.
Reading(tick) == IF tick THEN ULongInc(iUptime) ELSE iUptime

\* Far from the rollover of millis() the code only observes whether millis()
\* has moved past iUptime, so the tick-abstract specifications measure
\* uptime from the last pass.
Rebase(s) == [s EXCEPT !.iUptime = Epoch, !.clock = Epoch]

\* One scheduler pass.
Loop(tick, touch, light, raw) ==
  g' = Rebase(loop(g, Reading(tick), Reading(tick), touch, light, raw))

\* Evening: gestures of every length.
Next ==
  /\ WithinHorizon(MaxHold)
  /\ \E tick \in TickChoices :
       \E touch \in TouchInputs(tick, HoldChoices), raw \in RandomInputs :
         Loop(tick, touch, iLightValue, raw)

Spec == Init /\ [][Next]_vars

\* Day and night: taps only.
NextLight ==
  /\ WithinHorizon(MaxTap)
  /\ \E tick \in TickChoices :
       \E touch \in TouchInputs(tick, TapChoices),
          light \in LightInputs(tick, LightAt), raw \in RandomInputs :
         Loop(tick, touch, light, raw)

InitLight == \E boot \in LightBootChoices : g = Boot(boot)

SpecLight == InitLight /\ [][NextLight]_vars

\* Evening, sensor never touched, one pass per millisecond for ever: the
\* counters run through their whole range.
InitIdle == \E boot \in IdleBootChoices : g = Boot(boot)

NextIdle ==
  \E tick \in TickChoices, raw \in RandomInputs :
    Loop(tick, LOW, iLightValue, raw)

SpecIdle == InitIdle /\ [][NextIdle]_vars

\* Passes faster than one per millisecond: up to MaxSameTick passes in a row
\* find millis() unchanged.  Sensor never touched; the light may change.
InitFast == \E boot \in FastBootChoices : g = Boot(boot)

FastTickChoices == IF same < MaxSameTick THEN {TRUE, FALSE} ELSE {TRUE}

WithinFastHorizon ==
  \/ iTimer < MaxFast
  \/ /\ iLiteMode = 10 /\ iTimer <= iDemoModeTime
     /\ (iCycle <= 1 \/ bModeSetup = 0)

NextFast ==
  /\ WithinFastHorizon
  /\ \E tick \in FastTickChoices :
       \E light \in LightInputs(tick, FastLightAt), raw \in RandomInputs :
         Loop(tick, LOW, light, raw)

SpecFast == InitFast /\ [][NextFast]_vars

\* The rollover of millis(): the off program has run untouched for 2^32
\* milliseconds less ClockLead; the hardware counter `clock` is real.
InitClock ==
  \E t \in ClockTimerChoices :
    g = [Boot(0) EXCEPT !.iUptime = <<USHORT - 1, USHORT - 1 - ClockLead>>,
                        !.clock = <<USHORT - 1, USHORT - 1 - ClockLead>>,
                        !.iTimer = t, !.iFadeTime = 10, !.bModeSetup = 1,
                        !.evt = "none", !.prog = 0, !.owner = 0,
                        !.setups = 1, !.flagSeen = 1]

\* A pass reads millis() twice; the counter moves by at most one millisecond
\* between two readings.
ClockReadings(last) == {last, ULongInc(last)}

WithinClockHorizon == clock[1] = USHORT - 1 \/ clock[2] < ClockLead

LoopClock(now1, now2) ==
  g' = [loop(g, now1, now2, LOW, iLightValue, 0) EXCEPT !.clock = now2]

NextClock ==
  /\ WithinClockHorizon
  /\ \E now1 \in ClockReadings(clock) :
       \E now2 \in ClockReadings(now1) : LoopClock(now1, now2)

SpecClock == InitClock /\ [][NextClock]_vars

Longest(holdChoices) ==
  CHOOSE h \in holdChoices : \A other \in holdChoices : other <= h

\* A cell left by something other than autoSave: a diagnostic mode, a value
\* above the demo, a value beyond 16 bits.
InitStored == \E boot \in StoredChoices : g = Boot(boot)

\* The sensor is used only while iLiteMode is outside 0..10.
StoredTouchInputs(tick) ==
  IF bCurrentTouchValue = HIGH \/ iLiteMode \notin 0..(iTotalLiteModes + 1)
    THEN TouchInputs(tick, TapChoices)
    ELSE {LOW}

NextStored ==
  /\ WithinHorizon(MaxTap)
  /\ \E tick \in TickChoices :
       \E touch \in StoredTouchInputs(tick), raw \in RandomInputs :
         Loop(tick, touch, iLightValue, raw)

SpecStored == InitStored /\ [][NextStored]_vars

\* Persistence: from a fresh cell, the sensor is used until the first
\* comparison of autoSave or until the mode differs from the stored one,
\* then left alone for ever (no hold lasts beyond the longest choice).
SaveTouchInputs(tick, holdChoices) ==
  IF bCurrentTouchValue = HIGH
    THEN (IF Polls(tick) /\ LetGo(tick, {Longest(holdChoices)}) THEN {LOW}
          ELSE TouchInputs(tick, holdChoices))
  ELSE IF written = <<>> /\ sinceCheck = -1 /\ iLiteMode = diLiteMode
    THEN TouchInputs(tick, holdChoices)
  ELSE {LOW}

NextSave ==
  \E tick \in TickChoices :
    \E touch \in SaveTouchInputs(tick, SaveHoldChoices), raw \in RandomInputs :
      Loop(tick, touch, iLightValue, raw)

SpecSave == Init /\ [][NextSave]_vars

\* Power off and on again after a write: the RAM is initialised anew, the
\* cell is kept.
PowerCycle == wrote /\ g' = [Boot(diLiteMode) EXCEPT !.written = written]

\* Persistence over a power cycle: taps only.
NextPower ==
  \/ \E tick \in TickChoices :
       \E touch \in SaveTouchInputs(tick, TapChoices), raw \in RandomInputs :
         Loop(tick, touch, iLightValue, raw)
  \/ PowerCycle

SpecPower == Init /\ [][NextPower]_vars

(********************************* claims **********************************)
\* The hold duration computed by the last pass, read as a number when it is
\* below 2^16 (its high half is 0).
HoldBelow(n) == hold[1] = 0 /\ hold[2] < n

HoldAtLeast(n) == hold[1] > 0 \/ hold[2] >= n

Released == evt = "release"

\* C1 (as stated): after a release whose hold duration is below
\* iShortPressTime, iLiteMode is (m + 1) mod (N + 1) for EVERY prior mode m,
\* and the dispatcher of that pass saw bModeSetup = 0.
C1_ShortReleaseAnyMode ==
  (Released /\ HoldBelow(iShortPressTime)) =>
     /\ iLiteMode = (from + 1) % (iTotalLiteModes + 1)
     /\ flagSeen = 0

\* C1 (amended): after a release whose hold duration is below
\* iShortPressTime, iLiteMode is (m + 1) mod (N + 1) for every prior mode m
\* in 0..N and 0 for the prior mode N + 1 (demo), and the dispatcher of that
\* pass saw bModeSetup = 0.
C1_ShortRelease ==
  (Released /\ HoldBelow(iShortPressTime)) =>
     /\ from \in 0..iTotalLiteModes =>
          iLiteMode = (from + 1) % (iTotalLiteModes + 1)
     /\ from = iTotalLiteModes + 1 => iLiteMode = 0
     /\ flagSeen = 0

C1_Witness ==
  /\ Released /\ hold = <<0, 1498>>
  /\ from = iTotalLiteModes /\ iLiteMode = 0 /\ flagSeen = 0

\* The modes of the non-diagnostic configuration: off, 1..N, demo.
ValidModes == 0..(iTotalLiteModes + 1)

\* C2: after a release whose hold duration is at or above iDemoPressTime
\* (7000 ticks), iLiteMode is N + 1 (demo), whatever valid mode it was
\* before.
C2_ExtraLongRelease ==
  (Released /\ from \in ValidModes /\ HoldAtLeast(iDemoPressTime)) =>
     iLiteMode = iTotalLiteModes + 1

\* C3: a hold of exactly iLongPressTime ticks is a long release (iLiteMode
\* becomes 0) and a hold of exactly iDemoPressTime ticks is an extra-long
\* release (iLiteMode becomes N + 1).
C3_InclusiveThresholds ==
  (Released /\ from \in ValidModes) =>
     /\ hold = <<0, iLongPressTime>> => iLiteMode = 0
     /\ hold = <<0, iDemoPressTime>> => iLiteMode = iTotalLiteModes + 1

C6_ModeCycle ==
  shortRun >= 1 =>
     /\ shortRun <= iTotalLiteModes + 1
     /\ iLiteMode = shortRun % (iTotalLiteModes + 1)

C6_Witness ==
  /\ Released /\ shortRun = iTotalLiteModes + 1
  /\ from = iTotalLiteModes /\ iLiteMode = 0

\* C7: the hold duration computed at a release equals the number of tick
\* increments between the pass that detected the Press and the pass that
\* detected the Release.
C7_HoldIsElapsedTicks == Released => hold = <<0, realHold>>

\* C8: at the end of every pass iTimer is its value at the start of the
\* pass, or that value plus one modulo 2^16.
C8_TickStep == evt # "boot" => iTimer \in {t0, (t0 + 1) % USHORT}

\* C9: when the program of the active mode steps, the animation state
\* (ceilings, phases, cadence) was last written by that program's own setup.
C9_OwnSetupBeforeStep ==
  (prog = iLiteMode /\ iLiteMode \in 0..iTotalLiteModes) => owner = prog

\* C10: at the end of every pass, the setup of the active mode's program has
\* run exactly once since iLiteMode last changed (demo excepted).
C10_SetupOnce ==
  (evt # "boot" /\ iLiteMode \in 0..iTotalLiteModes) => setups = 1

\* C11: a pass that changes iLiteMode reaches the mode dispatch with
\* bModeSetup = 0.
C11_ModeChangeClearsFlag == iLiteMode # from => flagSeen = 0

C11_Witness == Released /\ from = 3 /\ iLiteMode = 4 /\ flagSeen = 0

\* C12: a pass changes iLiteMode only if it detected a release edge; a
\* press edge, a held or idle sensor, a demo advance, an animation step and
\* autoSave leave it as it was.
C12_ModeChangesOnlyOnRelease == iLiteMode # from => Released

C12_Witness ==
  /\ advanced /\ bLastTouchValue = HIGH /\ held > iDemoPressTime
  /\ from = iTotalLiteModes + 1 /\ iLiteMode = from

\* Every pixel of the LED buffer is CRGB(0, 0, 0).
AllOff == \A i \in Pixels : leds[i] = 0

\* C13: after a pass whose last light reading is at or above cLightSwitch,
\* the program the pass stepped is the off program, and once a cadence
\* boundary has passed with the gate closed the LED buffer is all zero.
C13_LightGate ==
  (evt # "boot" /\ iLightValue >= cLightSwitch) =>
     /\ prog = 0
     /\ dark => AllOff

C13_Witness ==
  /\ iLightValue >= cLightSwitch /\ iLiteMode = 1 /\ owner = 1
  /\ prog = 0 /\ dark /\ AllOff

\* C14: a pass of a mode 0..N+1 in which iTimer % iFadeTime # 0 and no setup
\* ran leaves the LED buffer and the phases iRed, iGreen, iBlue unchanged.
C14_NoOpBetweenBoundaries ==
  [][(iTimer' % iFadeTime' # 0 /\ ranSetup' = NoProg /\ iLiteMode' \in ValidModes)
       => (leds' = leds /\ iRed' = iRed /\ iGreen' = iGreen /\ iBlue' = iBlue)]_vars

C14_Witness ==
  /\ iLiteMode = 4 /\ prog = 4 /\ ranSetup = NoProg
  /\ iTimer % iFadeTime = 5 /\ iRed = 130 /\ ~AllOff

\* C15: while iTimer holds one value, the dispatched program makes at most
\* one visible update.
C15_OneUpdatePerTick == updates <= 1

\* C16: with no setup in between, two consecutive tick values at which
\* iTimer % iFadeTime = 0 held are iFadeTime tick increments apart.
C16_CadenceWrapSafe == gap >= 0 => gap = iFadeTime

\* C17: a pass that finds millis() different from iUptime executes the body
\* of the tick test (records the reading and increments iTimer).
C17_TickWhenUptimeDiffers == moved => ticked

\* C18: while iTimer holds one value, pollSensors() is called at most once.
C18_OnePollPerTick == polls <= 1

\* C19: in an undisturbed demo (evening, no touch event), the advance of
\* iCycle comes iDemoModeTime tick increments after the previous one.
C19_DemoInterval == (advanced /\ interval >= 0) => interval = iDemoModeTime

\* C20: in demo mode the stepped sub-program changes only to the next one of
\* the cyclic order 1..N, and the sub-program that steps was set up by its
\* own setup.
C20_DemoRotation ==
  /\ (from = iTotalLiteModes + 1 /\ iLiteMode = from
        /\ prog \in 1..iTotalLiteModes /\ prevProg \in 1..iTotalLiteModes
        /\ prog # prevProg)
       => prog = (prevProg % iTotalLiteModes) + 1
  /\ (iLiteMode = iTotalLiteModes + 1 /\ prog \in 1..iTotalLiteModes)
       => owner = prog

C22_PersistenceLiveness == lapped => diLiteMode = iLiteMode

\* C23: any two passes in which autoSave performs its comparison are at
\* least 600000 tick increments apart.
C23_SaveThrottle == checkGap >= 0 => checkGap >= iAutoSaveTime

\* C24: diLiteMode.write is executed only in a pass where iLiteMode differs
\* from the value the cell holds, the cell holds iLiteMode right after the
\* write, and the cell changes in no other way.
C24_WriteOnlyOnDifference ==
  /\ wrote => /\ iLiteMode # stored0
              /\ diLiteMode = iLiteMode
              /\ written = <<iLiteMode>>
  /\ ~wrote => diLiteMode = stored0

\* A pass wrote mode 1 over the 0 of the fresh cell.
C24_Witness ==
  wrote /\ checked /\ stored0 = 0 /\ iLiteMode = 1 /\ diLiteMode = 1

\* C25: whatever integer diLiteMode.read() returns at boot, the iLiteMode a
\* pass dispatches on is in 0..10, from the first pass on.
C25_BootClamp == passes >= 1 => iLiteMode \in ValidModes

Total(pixel) ==
  (pixel \div (BYTE * BYTE)) + ((pixel \div BYTE) % BYTE) + (pixel % BYTE)

\* C27: in every reachable state every pixel of the LED buffer has
\* R + G + B <= iLiteMax, whatever program wrote it and whatever setup last
\* wrote the ceilings; the three ceilings together stay within iLiteMax, so
\* that the bound does not rest on the shape of the waveform.
C27_BrightnessBudget ==
  /\ \A i \in Pixels : Total(leds[i]) <= iLiteMax
  /\ iRedMax + iGreenMax + iBlueMax <= iLiteMax

\* Program 8 wrote a pixel that uses the whole budget.
C27_Witness ==
  /\ prog = 8 /\ owner = 8 /\ updated
  /\ \E i \in Pixels : Total(leds[i]) = iLiteMax

\* C28: Press and Release events alternate, starting with a Press; the
\* remembered sample bLastTouchValue equals the sample polled before, at
\* every poll; iPressTime changes only in a pass that detects a Press.
C28_GestureAlternation ==
  [][/\ evt' = "press" => edge # "press"
     /\ evt' = "release" => edge = "press"
     /\ bLastTouchValue = bCurrentTouchValue
     /\ iPressTime' # iPressTime => evt' = "press"]_vars

\* A Press detected after an earlier gesture ended with a short Release.
C28_Witness == evt = "press" /\ shortRun >= 1 /\ iPressTime = iTimer

\* C29: in programs 4..9 every visible update adds one, modulo 256, to each
\* of iRed, iGreen and iBlue, a pass without update leaves them alone, and
\* the differences iGreen - iRed and iBlue - iRed (modulo 256) are those of
\* the phases the last setup was given.
C29_PhaseOffsets ==
  prog \in 4..iTotalLiteModes =>
    /\ updated => <<iRed, iGreen, iBlue>> =
                    <<(phases[1] + 1) % BYTE, (phases[2] + 1) % BYTE,
                      (phases[3] + 1) % BYTE>>
    /\ ~updated => <<iRed, iGreen, iBlue>> = phases
    /\ (iGreen - iRed) % BYTE = (given[2] - given[1]) % BYTE
    /\ (iBlue - iRed) % BYTE = (given[3] - given[1]) % BYTE

\* Program 4 stepped iRed from 255 round to 0, with iGreen 129 behind as at
\* its setup (127, 0, 0).
C29_Witness ==
  /\ prog = 4 /\ owner = 4 /\ updated /\ phases[1] = BYTE - 1 /\ iRed = 0
  /\ iGreen = 129 /\ given = <<127, 0, 0>>

\* C30: every detected release clears bModeSetup in that pass, whatever the
\* hold duration and whether or not iLiteMode changed, so the program the
\* pass dispatches runs its setup again, which rewrites the tick counter
\* (with the cadence in force before the pass).
C30_ReleaseRerunsSetup ==
  Released =>
    /\ flagSeen = 0
    /\ prog # NoProg /\ ranSetup = prog /\ owner = prog
    /\ bModeSetup = 1
    /\ iTimer = fade0

\* A dead-zone hold in mode 5: the mode is unchanged and program 5 ran its
\* setup again, restarting its phases and the tick counter.
C30_Witness ==
  /\ Released /\ hold = <<0, 2998>> /\ from = 5 /\ iLiteMode = 5
  /\ flagSeen = 0 /\ ranSetup = 5 /\ iTimer = fade0 /\ given = <<127, 0, 0>>

\* C31: with a boot value in 0..10, iLiteMode is in 0..10 in every state; a
\* short release never yields 10 (from 9 and from the demo it yields 0), and
\* iLiteMode becomes 10 only in a pass that detects a release and takes the
\* extra-long branch.
C31_ModeDomain ==
  /\ iLiteMode \in ValidModes
  /\ (Released /\ IsShortPress(hold) /\ ~IsLongPress(hold)) =>
        /\ iLiteMode # iTotalLiteModes + 1
        /\ from >= iTotalLiteModes => iLiteMode = 0
  /\ (iLiteMode = iTotalLiteModes + 1 /\ from # iTotalLiteModes + 1) =>
        (Released /\ IsDemoPress(hold))

\* A tap in the demo: the short release takes iLiteMode from 10 to 0.
C31_Witness ==
  /\ Released /\ IsShortPress(hold) /\ realHold < iShortPressTime
  /\ from = iTotalLiteModes + 1 /\ iLiteMode = 0 /\ ranSetup = 0

(***************************************************************************)
(* The interrupt-driven variant (unnamed/part_000).  Its loop() is not     *)
(* atomic with respect to the touch interrupt, so a pass is a sequence of  *)
(* steps and pc is the position of loop(): "loop" before the sensors are   *)
(* read, "off", "demo", "test", "check", "setup", "step", "advance" inside *)
(* the selected program, "tick" before iTimer++.  The record g then holds  *)
(* the variant's globals; names the two sources share (iLiteMode,          *)
(* bModeSetup, iTimer, ...) are read through the same accessors, and the   *)
(* variant's own definitions carry the suffix Irq where the polling        *)
(* firmware has a definition of the same name.  cur is the program the     *)
(* switch selected, sub says that it runs under ledMode10, testI is the    *)
(* loop variable of ledTest().                                             *)
(***************************************************************************)
\* #define debugMode NULL
debugModeIrq == 0
cLightSwitchIrq == 50
iLoopTime == 1
iDebounceTimer == 2000

\* Uptime (ms) explored under SpecIrq.
MaxIrqClock == 4003
\* Uptimes at which the touch pin may fall, at any position of loop().
IrqAt == {2000, 2001, 4001, 4002}
\* iTimer values at which the light reading may change (SpecIrq).
IrqLightAt == {3000}
\* SpecDebounce: uptime explored, the uptimes at which the pin falls as loop()
\* starts, and those at which it may fall as well.
MaxDebounceClock == 14008
DebounceAt == {2001, 4002, 6003, 8004, 10005, 12006, 14007}
BounceAt == {2000, 4001}
\* SpecTest: uptime explored and the uptimes at which the pin may fall.
MaxTestClock == 4510
TestIrqAt == {2250, 4500}
\* SpecTest: what iCycle and bModeSetup hold when case -1 is selected.
TestCycleChoices == {0, 10}
\* What the store through leds[-1] may hit: nothing the program reads, or
\* the three phase bytes declared just before leds.
StrayChoices == {"none", "phases"}

\* a - b on two unsigned longs
ULongMinus(a, b) ==
  LET borrow == IF a[2] < b[2] THEN 1 ELSE 0
  IN <<(a[1] - b[1] - borrow + USHORT) % USHORT, (a[2] - b[2] + USHORT) % USHORT>>

\* x + n on an unsigned long, n < 2^16
ULongPlus(x, n) ==
  <<(x[1] + ((x[2] + n) \div USHORT)) % USHORT, (x[2] + n) % USHORT>>

\* the debounce test with >= in place of >
DebouncedInclusive(s) ==
  ULongGT(ULongMinus(s.iReleaseTime, s.iLastPressTime), iDebounceTimer - 1)

\* if (iReleaseTime - iLastPressTime > iDebounceTimer)
Debounced(s) ==
  ULongGT(ULongMinus(s.iReleaseTime, s.iLastPressTime), iDebounceTimer)

\* touchReleaseEvent(), the handler attached to the FALLING edge of the touch
\* pin; now is millis().
touchReleaseEventIrq(s, now) ==
  LET a == [s EXCEPT !.iReleaseTime = now]
  IN IF Debounced(a)
       THEN LET m == ToShort(a.iLiteMode + 1)
            IN [a EXCEPT !.iLiteMode = IF m > iTotalLiteModes THEN 0 ELSE m,
                         !.bModeSetup = 0,
                         !.iLastPressTime = a.iReleaseTime]
       ELSE a

\* modeSetup(...): unlike the polling firmware's it leaves iTimer alone and
\* derives iFadeLoops.
modeSetupIrq(s, redMax, greenMax, blueMax, red, green, blue, fadeTime) ==
  [s EXCEPT !.iRedMax = redMax % BYTE, !.iGreenMax = greenMax % BYTE,
            !.iBlueMax = blueMax % BYTE,
            !.iRed = red % BYTE, !.iGreen = green % BYTE, !.iBlue = blue % BYTE,
            !.iFadeTime = fadeTime,
            !.iFadeLoops = ToShort(fadeTime \div iLoopTime),
            !.bModeSetup = 1]

\* History: indices first..last of leds[] were written; lowest and highest
\* are the extremes since loop() started this pass (0 and -1: none).
NoteWrites(s, first, last) ==
  [s EXCEPT !.lowest = IF s.highest < s.lowest \/ first < s.lowest
                         THEN first ELSE s.lowest,
            !.highest = IF s.highest < s.lowest \/ last > s.highest
                          THEN last ELSE s.highest]

\* for (short i = 0; i < cLedCount; i++) leds[i] = ...
PaintIrq(s, kind) ==
  NoteWrites([s EXCEPT !.leds = [i \in Pixels |-> PixelOf(s, kind, i)]],
             0, cLedCount - 1)

\* One iteration of the loop of ledTest(): leds[i] is lit, leds[i-1] is
\* cleared, then delay(250).  With i = 0 the second store is to leds[-1],
\* outside the array: stray says what it hits.
ledTestIrq(s, stray) ==
  LET i == s.testI
      lit == [s.leds EXCEPT ![i] = CRGB(20, 20, 20)]
      a == IF i - 1 \in Pixels
             THEN [s EXCEPT !.leds = [lit EXCEPT ![i - 1] = CRGB(0, 0, 0)]]
             ELSE IF stray = "phases"
                    THEN [s EXCEPT !.leds = lit,
                                   !.iRed = 0, !.iGreen = 0, !.iBlue = 0]
                    ELSE [s EXCEPT !.leds = lit]
      b == NoteWrites(a, i - 1, i)
  IN [b EXCEPT !.prog = -1,
               !.clock = ULongPlus(s.clock, 250),
               !.testI = i + 1,
               !.pc = IF i + 1 < cLedCount THEN "test" ELSE "tick"]

\* ledMode0(): all pixels off, then modeSetup(0,0,0,0,0,0,5), bModeSetup = 0
\* and iCycle = 0, in every pass.
ledMode0Irq(s) ==
  LET a == modeSetupIrq(PaintIrq(s, "off"), 0, 0, 0, 0, 0, 0, 5)
  IN [a EXCEPT !.bModeSetup = 0, !.iCycle = 0,
               !.prog = 0, !.ranSetup = 0, !.owner = 0, !.pc = "tick"]

\* The modeSetup(...) call of ledMode1() .. ledMode9().
SetupOf(s, p) ==
  CASE p = 1 -> modeSetupIrq(s, iLiteMax \div 2, iLiteMax \div 4, 0, 255, 127, 0, 1000)
    [] p = 2 -> modeSetupIrq(s, iLiteMax \div 2, iLiteMax \div 4, 0, 255, 127, 0, 10)
    [] p = 3 -> modeSetupIrq(s, iLiteMax \div 2, iLiteMax \div 4, 0, 255, 127, 0, 2000)
    [] p = 4 -> modeSetupIrq(s, iLiteMax \div 2, iLiteMax \div 2, 0, 127, 0, 0, 5)
    [] p = 5 -> modeSetupIrq(s, iLiteMax \div 2, iLiteMax \div 2, 0, 127, 0, 0, 5)
    [] p = 6 -> modeSetupIrq(s, iLiteMax \div 3, iLiteMax \div 3, iLiteMax \div 3, 255, 127, 0, 5)
    [] p = 7 -> modeSetupIrq(s, iLiteMax \div 3, iLiteMax \div 3, iLiteMax \div 3, 127, 63, 0, 5)
    [] p = 8 -> modeSetupIrq(s, iLiteMax \div 3, iLiteMax \div 3, iLiteMax \div 3, 0, 0, 255, 5)
    [] p = 9 -> modeSetupIrq(s, iLiteMax \div 3, iLiteMax \div 15, iLiteMax \div 3, 0, 0, 255, 5)

\* What ledMode1() .. ledMode9() do after their setup:
\* if (iTimer % iFadeLoops == 0) {paint; phases++}.  The flicker programs
\* draw iRed = random(lo, iRedMax), iGreen = iRed/2, iBlue = 0 per pixel; raw
\* is the generator output.
StepOf(s, p, raw) ==
  IF s.iTimer % s.iFadeLoops # 0 THEN s
  ELSE CASE p = 1 -> PaintIrq(s, "static")
         [] p \in {2, 3} ->
              LET r == random(raw, IF p = 2 THEN 5 ELSE 0, s.iRedMax)
              IN PaintIrq([s EXCEPT !.iRed = r, !.iGreen = r \div 2,
                                    !.iBlue = 0], "flicker")
         [] p = 4 -> IncrementColors(PaintIrq(s, "chase"))
         [] p = 5 -> IncrementColors(PaintIrq(s, "rotate"))
         [] p = 6 -> IncrementColors(PaintIrq(s, "plain"))
         [] p = 7 -> IncrementColors(PaintIrq(s, "rotate"))
         [] p = 8 -> IncrementColors(PaintIrq(s, "chaseBlue"))
         [] p = 9 -> IncrementColors(PaintIrq(s, "chaseBlue"))

\* The globals' initialisers and setup().
BootIrq ==
  [iLiteMode |-> 3, bModeSetup |-> 0, iReleaseTime |-> Epoch,
   iLastPressTime |-> Epoch, iTimer |-> 0, iFadeTime |-> 100,
   iLightValue |-> 0, iCycle |-> 0, iFadeLoops |-> 100 \div iLoopTime,
   fLight |-> 0,
   iRedMax |-> 0, iGreenMax |-> 0, iBlueMax |-> 0,
   iRed |-> 0, iGreen |-> 0, iBlue |-> 0,
   leds |-> [i \in Pixels |-> CRGB(0, 0, 0)],
   pc |-> "loop", cur |-> NoProg, sub |-> FALSE, testI |-> 0,
   clock |-> Epoch, irq |-> "none", from |-> 3, flagWas |-> 0,
   lastChange |-> <<>>, prevChange |-> <<>>,
   prog |-> NoProg, ranSetup |-> NoProg, owner |-> NoProg,
   lowest |-> 0, highest |-> 0 - 1]

InitIrq == g = BootIrq

\* The three steps of the main pass; each forgets the handler's history
\* (irq: "fired" right after the handler ran).
\* The head of loop(): the sensors (or the debug override), the light gate
\* and switch (iLiteMode).  The sensors are not read while the pin has yet to
\* fall at this uptime (must).
SenseStep(lightAt, must) ==
  /\ g.pc = "loop"
  /\ clock[2] \in must => g.iReleaseTime = clock
  /\ \E light \in (IF iTimer \in lightAt THEN {0, 255} ELSE {iLightValue}) :
       LET a == IF debugModeIrq # 0
                  THEN [g EXCEPT !.iLiteMode = debugModeIrq,
                                 !.fLight = debugModeIrq % BYTE]
                  ELSE [g EXCEPT !.iLightValue = light,
                                 !.fLight = map(light, 0, 255, 0, 100) % BYTE]
           b == [a EXCEPT !.irq = "none",
                          !.prog = NoProg, !.ranSetup = NoProg, !.sub = FALSE,
                          !.lowest = 0, !.highest = -1, !.cur = NoProg]
       IN g' = IF b.fLight < cLightSwitchIrq
                 THEN CASE b.iLiteMode = -1 ->
                             [b EXCEPT !.pc = "test", !.testI = 0]
                        [] b.iLiteMode = 0 -> [b EXCEPT !.pc = "off"]
                        [] b.iLiteMode \in 1..9 ->
                             [b EXCEPT !.pc = "check", !.cur = b.iLiteMode]
                        [] b.iLiteMode = 10 -> [b EXCEPT !.pc = "demo"]
                        [] OTHER -> [b EXCEPT !.pc = "tick"]
                 ELSE [b EXCEPT !.pc = "off"]

\* One step of the selected program, from position pc: ledMode0() or one
\* iteration of ledTest(); or the head of ledMode10(), which normalises
\* iCycle and selects the program; or the test of bModeSetup, the modeSetup
\* call and the cadence block of ledMode1() .. ledMode9(); or the tail of
\* ledMode10(), every 2000 passes the next program.
RunStep ==
  /\ g.pc \notin {"loop", "tick"}
  /\ \E raw \in (IF g.pc = "step" /\ g.cur \in {2, 3}
                      /\ iTimer % g.iFadeLoops = 0
                   THEN RandomChoices ELSE {0}) :
       \E stray \in (IF g.pc = "test" /\ g.testI = 0 THEN StrayChoices
                     ELSE {"none"}) :
         LET s == [g EXCEPT !.irq = "none"]
             c == IF s.iCycle < 1 \/ s.iCycle > 9 THEN 1 ELSE s.iCycle
         IN g' = CASE s.pc = "off" -> ledMode0Irq(s)
                   [] s.pc = "test" -> ledTestIrq(s, stray)
                   [] s.pc = "demo" ->
                        [s EXCEPT !.iCycle = c, !.cur = c, !.sub = TRUE,
                                  !.pc = "check"]
                   [] s.pc = "check" ->
                        [s EXCEPT !.pc = IF s.bModeSetup = 0 THEN "setup"
                                         ELSE "step"]
                   [] s.pc = "setup" ->
                        [SetupOf(s, s.cur) EXCEPT !.ranSetup = s.cur,
                                                  !.owner = s.cur,
                                                  !.pc = "step"]
                   [] s.pc = "step" ->
                        [StepOf(s, s.cur, raw)
                           EXCEPT !.prog = s.cur,
                                  !.pc = IF s.sub THEN "advance" ELSE "tick"]
                   [] s.pc = "advance" ->
                        IF s.iTimer % 2000 = 0 /\ s.iTimer # 0
                          THEN [s EXCEPT !.iCycle = ToShort(s.iCycle + 1),
                                         !.bModeSetup = 0, !.pc = "tick"]
                          ELSE [s EXCEPT !.pc = "tick"]

\* The end of loop(): iTimer++; delay(iLoopTime);
TickStep(horizon) ==
  /\ g.pc = "tick"
  /\ clock[1] = 0 /\ clock[2] < horizon
  /\ g' = [g EXCEPT !.irq = "none",
                    !.iTimer = iTimer + 1,
                    !.clock = ULongPlus(clock, iLoopTime),
                    !.pc = "loop"]

\* The touch pin falls: the handler runs to completion between two steps of
\* the main pass (everywhere, or only as loop() starts).  History: from and
\* flagWas are iLiteMode and bModeSetup on entry; lastChange and prevChange
\* are millis() at the last two invocations that changed iLiteMode (<<>>:
\* none).
Interrupt(at, everywhere) ==
  /\ clock[1] = 0 /\ clock[2] \in at
  /\ everywhere \/ g.pc = "loop"
  /\ LET t == touchReleaseEventIrq(g, clock)
         changed == t.iLiteMode # iLiteMode
     IN g' = [t EXCEPT !.irq = "fired", !.from = iLiteMode,
                       !.flagWas = bModeSetup,
                       !.lastChange = IF changed THEN clock ELSE g.lastChange,
                       !.prevChange = IF changed THEN g.lastChange
                                      ELSE g.prevChange]

NextIrq ==
  \/ SenseStep(IrqLightAt, {})
  \/ RunStep
  \/ TickStep(MaxIrqClock)
  \/ Interrupt(IrqAt, TRUE)

SpecIrq == InitIrq /\ [][NextIrq]_vars

\* The debounce over a whole round of the modes: the pin falls as loop()
\* starts, every DebounceAt and possibly at BounceAt as well, any number of
\* times within the millisecond.
NextDebounce ==
  \/ SenseStep({}, DebounceAt)
  \/ RunStep
  \/ TickStep(MaxDebounceClock)
  \/ Interrupt(DebounceAt \cup BounceAt, FALSE)

SpecDebounce == InitIrq /\ [][NextDebounce]_vars

\* ledTest() on its own.  iLiteMode is -1 only under a debug override, which
\* also sets fLight to 255, so loop() as built never selects case -1; the
\* exploration starts where case -1 is selected.
InitTest ==
  \E c \in TestCycleChoices : \E f \in {0, 1} :
    g = [BootIrq EXCEPT !.iLiteMode = 0 - 1, !.from = 0 - 1,
                        !.iCycle = c, !.bModeSetup = f]

NextTest ==
  \/ SenseStep({}, {})
  \/ RunStep
  \/ TickStep(MaxTestClock)
  \/ Interrupt(TestIrqAt, TRUE)

SpecTest == InitTest /\ [][NextTest]_vars

(***************************************************************************)
(* C32  Interrupt-variant debounce (SpecDebounce).  Right after the touch  *)
(* interrupt handler ran, iLiteMode is either what it was, or one more     *)
(* (0 after iTotalLiteModes) with bModeSetup cleared; and two handler      *)
(* invocations that changed iLiteMode are more than iDebounceTimer ms of   *)
(* uptime apart, so a burst within that time changes it at most once.      *)
(***************************************************************************)
C32_InterruptDebounce ==
  /\ g.irq = "fired" =>
       \/ iLiteMode = from
       \/ /\ iLiteMode = (IF from = iTotalLiteModes THEN 0 ELSE from + 1)
          /\ bModeSetup = 0
          /\ g.lastChange = clock
  /\ g.prevChange # <<>> =>
       ULongGT(ULongMinus(g.lastChange, g.prevChange), iDebounceTimer)

\* The handler accepted the edge that wraps from iTotalLiteModes to 0, more
\* than iDebounceTimer after the last accepted one.
C32_Witness ==
  /\ g.irq = "fired" /\ from = iTotalLiteModes /\ iLiteMode = 0
  /\ g.prevChange # <<>> /\ g.lastChange = clock

(***************************************************************************)
(* C33  Interrupt handler defers classification (SpecIrq).  The touch      *)
(* interrupt handler only records the edge and its timestamp: right after  *)
(* it ran, iLiteMode and bModeSetup are what they were when it was         *)
(* entered.                                                                *)
(***************************************************************************)
C33_HandlerDefers ==
  g.irq = "fired" => (iLiteMode = from /\ bModeSetup = g.flagWas)

(***************************************************************************)
(* C34  Interrupt/main-pass interleaving (SpecIrq).  Wherever in the main  *)
(* pass the handler changed iLiteMode, a program of 1..9 that steps has    *)
(* had its own setup run last: the ceilings, phases and cadence it steps   *)
(* with are its own, and bModeSetup is never left set for a program that   *)
(* was not set up.                                                         *)
(***************************************************************************)
C34_SetupBeforeFirstStep ==
  /\ prog \in 1..iTotalLiteModes => owner = prog
  /\ (g.pc = "loop" /\ bModeSetup = 1 /\ iLiteMode \in 1..iTotalLiteModes)
       => owner = iLiteMode

====
